---- MODULE Spec2Model ----
(***************************************************************************)
(* A model of the batch downloader youtube-scraper.py: the URL-list        *)
(* reader, main's control flow and exit status, and the fan-out/fan-in of  *)
(* download_concurrently over a ThreadPoolExecutor; and of the single-URL  *)
(* downloader simple-youtube-scraper.py.                                   *)
(*                                                                         *)
(* Text is modelled as a sequence of fragments (a fragment stands for a    *)
(* run of characters), so that strip() and startswith() are computed on    *)
(* the text and not assumed.                                               *)
(***************************************************************************)
EXTENDS Integers, Sequences, FiniteSets, Bags, TLC

VARIABLES
    pc,             \* main's position
    argvWorkers,    \* the --workers option as given: <<>> when absent, <<w>> otherwise
    listUrls,       \* args.list_urls
    workers,        \* args.workers
    fileStatus,     \* what open(file_path) meets: "ok", "missing", "unreadable"
    fileText,       \* the lines of the URL file, as the file iterator yields them
    lineNum,        \* lines of the file consumed so far
    urls,           \* the list read_urls_from_file builds
    warnings,       \* line numbers of the "not a valid YouTube URL" warnings printed
    clampWarned,    \* whether the "Workers count should be between 1 and 20" warning was printed
    poolCreated,    \* whether ThreadPoolExecutor(...) was constructed
    maxWorkers,     \* the executor's max_workers
    numThreads,     \* worker threads the executor has spawned
    idleSem,        \* the executor's idle semaphore
    workQueue,      \* the executor's FIFO of work items not yet taken by a thread
    tstate,         \* per request: "unsubmitted", "queued", "mkdir", "download", "finished"
    invoked,        \* per request: number of download_video invocations started
    future,         \* per request: the state of its Future
    destDir,        \* the destination directory on disk: "absent" or "dir"
    snapshot,       \* as_completed: futures already finished when it was called, not yet yielded
    waiterQ,        \* as_completed: futures finished afterwards, in completion order, not yet yielded
    yielded,        \* as_completed: the requests whose future was yielded, in order
    finishedOrder,  \* history: the requests whose work item has ended and whose future
                    \* as_completed has not yielded yet, in the order they ended
    successful_downloads,
    failed_downloads,
    raised,         \* an exception is propagating out of download_concurrently
    exitStatus,     \* the process's exit status, NotExited while it runs
    single          \* a run of simple-youtube-scraper.py: its position, arguments,
                    \* destination directory, calls made and exit status

vars == <<pc, argvWorkers, listUrls, workers, fileStatus, fileText, lineNum, urls,
          warnings, clampWarned, poolCreated, maxWorkers, numThreads, idleSem,
          workQueue, tstate, invoked, future, destDir, snapshot, waiterQ, yielded,
          finishedOrder, successful_downloads, failed_downloads, raised, exitStatus,
          single>>

mainVars == <<argvWorkers, listUrls, workers, fileStatus, fileText, lineNum, urls,
              warnings, clampWarned, single>>
poolVars == <<poolCreated, maxWorkers, numThreads, idleSem, workQueue, tstate,
              invoked, future, destDir, snapshot, waiterQ, yielded,
              finishedOrder, successful_downloads, failed_downloads, raised>>

----------------------------------------------------------------------------
(* Bounds of the model *)

\* lines of a URL file
MaxLines == 3
\* the largest --workers value tried
MaxWorkersArg == 22
\* --workers values down to -MinWorkersArgAbs are tried
MinWorkersArgAbs == 2

(* Program constants *)

\* the argparse default of --workers
DEFAULT_WORKERS == 10
\* the value the range check falls back to
FALLBACK_WORKERS == 10
MIN_WORKERS == 1
MAX_WORKERS == 20

\* exitStatus while the process has not ended
NotExited == 0 - 1

----------------------------------------------------------------------------
(* Text *)

Whitespace == {" ", "\t", "\n"}

RECURSIVE LStrip(_)
LStrip(s) == IF s # <<>> /\ Head(s) \in Whitespace THEN LStrip(Tail(s)) ELSE s

RECURSIVE RStrip(_)
RStrip(s) ==
    IF s # <<>> /\ s[Len(s)] \in Whitespace THEN RStrip(SubSeq(s, 1, Len(s) - 1)) ELSE s

\* str.strip()
Strip(s) == RStrip(LStrip(s))

\* str.startswith(p)
StartsWith(s, p) == Len(s) >= Len(p) /\ SubSeq(s, 1, Len(p)) = p

AllowedPrefixes ==
    { <<"https://", "www.", "youtube.com", "/">>,
      <<"https://", "youtu.be", "/">>,
      <<"https://", "youtube.com", "/">> }

\* line.startswith((...)) of the three accepted prefixes
HasAllowedPrefix(line) == \E p \in AllowedPrefixes : StartsWith(line, p)

\* not line or line.startswith('#')
IsSkipped(line) == line = <<>> \/ StartsWith(line, <<"#">>)

----------------------------------------------------------------------------
(* Inputs *)

UrlA == <<"https://", "www.", "youtube.com", "/", "watch?v=A">>
UrlB == <<"https://", "youtu.be", "/", "B">>
UrlC == <<"https://", "youtube.com", "/", "C">>

\* Line bodies of the URL files of the batch runs
BatchLines == { UrlA, UrlB, <<"not-a-url">> }

\* Line bodies of the URL files the reader is checked on
ReaderLines ==
    BatchLines \cup
    { <<>>,
      <<"#", " comment">>,
      <<" ", "\t">>,
      <<" ">> \o UrlB \o <<" ">>,
      UrlC,
      <<" ", "#", "https://", "youtu.be", "/", "B">>,
      <<"http://", "www.", "youtube.com", "/", "watch?v=A">>,
      <<"https://", "youtube.com">> }

\* The lines a file iterator yields for the bodies f: each keeps its "\n", the last
\* one only when the file ends with a newline.
Terminated(f, finalNewline) ==
    [i \in 1..Len(f) |-> IF i < Len(f) \/ finalNewline THEN f[i] \o <<"\n">> ELSE f[i]]

BodiesUpTo(lines, n) == UNION { [1..k -> lines] : k \in 0..n }

FilesEndingInNewline(lines) == { Terminated(f, TRUE) : f \in BodiesUpTo(lines, MaxLines) }

FilesWithoutFinalNewline(lines) ==
    { Terminated(f, FALSE) : f \in { g \in BodiesUpTo(lines, MaxLines) :
                                        g # <<>> /\ g[Len(g)] # <<>> } }

\* The five-line file of the URL-list parsing example
ExampleFile ==
    Terminated(<<UrlA, <<"#", " comment">>, <<>>, <<"not-a-url">>, UrlB>>, TRUE)

BatchFiles == FilesEndingInNewline(BatchLines)
ReaderFiles ==
    FilesEndingInNewline(ReaderLines) \cup FilesWithoutFinalNewline(ReaderLines)
        \cup {ExampleFile}
FairFiles == FilesEndingInNewline({UrlA})
ClampFiles == { <<>>, Terminated(<<UrlA>>, TRUE), Terminated(<<UrlA, UrlB>>, TRUE) }

\* --workers as given on the command line
BatchWorkerArgs == { <<1>>, <<2>>, <<25>> }
ClampWorkerArgs == { <<>> } \cup { <<w>> : w \in (0 - MinWorkersArgAbs)..MaxWorkersArg }

\* str(e) of the exception request i's extraction or download raised. The text is
\* opaque to the program; the model keeps which invocation it came from.
ErrorOf(i) == <<"error of invocation", i>>

NoFuture == [kind |-> "pending", url |-> <<>>, success |-> FALSE, error |-> <<>>]

\* simple-youtube-scraper.py before main is entered
SingleNotRun ==
    [pc |-> "idle", url |-> <<>>, listFormats |-> FALSE, audioOnly |-> FALSE,
     dir |-> "absent", mkdirs |-> 0, extracted |-> 0, downloaded |-> 0,
     returned |-> "none", exit |-> NotExited]

\* The state when main is entered, for a given family of URL files and --workers values
InitWith(files, workerArgs) ==
    /\ pc = "parse"
    /\ argvWorkers \in workerArgs
    /\ listUrls \in BOOLEAN
    /\ workers = 0
    /\ fileStatus \in {"ok", "missing", "unreadable"}
    /\ fileText \in files
    /\ fileStatus # "ok" => fileText = <<>>
    /\ lineNum = 0
    /\ urls = <<>>
    /\ warnings = <<>>
    /\ clampWarned = FALSE
    /\ poolCreated = FALSE
    /\ maxWorkers = 0
    /\ numThreads = 0
    /\ idleSem = 0
    /\ workQueue = <<>>
    /\ tstate = <<>>
    /\ invoked = <<>>
    /\ future = <<>>
    /\ destDir \in {"absent", "dir"}
    /\ snapshot = {}
    /\ waiterQ = <<>>
    /\ yielded = <<>>
    /\ finishedOrder = <<>>
    /\ successful_downloads = <<>>
    /\ failed_downloads = <<>>
    /\ raised = FALSE
    /\ exitStatus = NotExited
    /\ single = SingleNotRun

Init == InitWith(BatchFiles, BatchWorkerArgs)

----------------------------------------------------------------------------
(* main, up to the call of download_concurrently *)

\* parser.parse_args(): --workers is an int, 10 when absent
ParsedWorkers(given) == IF given = <<>> THEN DEFAULT_WORKERS ELSE given[1]

ParseArgs ==
    /\ pc = "parse"
    /\ workers' = ParsedWorkers(argvWorkers)
    /\ pc' = "open"
    /\ UNCHANGED <<argvWorkers, listUrls, fileStatus, fileText, lineNum, urls, warnings,
                   clampWarned, exitStatus, single>>
    /\ UNCHANGED poolVars

\* open(file_path): FileNotFoundError and every other exception end in sys.exit(1)
OpenFile ==
    /\ pc = "open"
    /\ IF fileStatus = "ok"
       THEN pc' = "read" /\ exitStatus' = exitStatus
       ELSE pc' = "exited" /\ exitStatus' = 1
    /\ UNCHANGED mainVars
    /\ UNCHANGED poolVars

\* the reading loop testing the line as read, without strip()
UrlsAfterLine_NoStrip(us, raw) ==
    IF IsSkipped(raw) THEN us
    ELSE IF HasAllowedPrefix(raw) THEN Append(us, raw)
    ELSE us

\* What one iteration of the reading loop does to urls
UrlsAfterLine(us, raw) ==
    LET line == Strip(raw) IN
    IF IsSkipped(line) THEN us
    ELSE IF HasAllowedPrefix(line) THEN Append(us, line)
    ELSE us

\* What one iteration of the reading loop does to the warnings printed
WarningsAfterLine(ws, raw, num) ==
    LET line == Strip(raw) IN
    IF IsSkipped(line) \/ HasAllowedPrefix(line) THEN ws ELSE Append(ws, num)

ReadLine ==
    /\ pc = "read"
    /\ lineNum < Len(fileText)
    /\ lineNum' = lineNum + 1
    /\ urls' = UrlsAfterLine(urls, fileText[lineNum + 1])
    /\ warnings' = WarningsAfterLine(warnings, fileText[lineNum + 1], lineNum + 1)
    /\ UNCHANGED <<pc, argvWorkers, listUrls, workers, fileStatus, fileText, clampWarned,
                   exitStatus, single>>
    /\ UNCHANGED poolVars

\* the file is exhausted: read_urls_from_file returns urls
ReadReturn ==
    /\ pc = "read"
    /\ lineNum = Len(fileText)
    /\ pc' = "check"
    /\ UNCHANGED <<exitStatus>>
    /\ UNCHANGED mainVars
    /\ UNCHANGED poolVars

\* a main that goes on with an empty list
NoUrls_Never(us) == FALSE

\* if not urls
NoUrls(us) == us = <<>>

\* if not urls: sys.exit(1)
CheckUrls ==
    /\ pc = "check"
    /\ IF NoUrls(urls)
       THEN pc' = "exited" /\ exitStatus' = 1
       ELSE pc' = "list" /\ exitStatus' = exitStatus
    /\ UNCHANGED mainVars
    /\ UNCHANGED poolVars

\* a main that ignores --list-urls
ListOnly_Never(flag) == FALSE

\* if args.list_urls
ListOnly(flag) == flag

\* if args.list_urls: print the URLs and return
ListUrls ==
    /\ pc = "list"
    /\ IF ListOnly(listUrls)
       THEN pc' = "exited" /\ exitStatus' = 0
       ELSE pc' = "clamp" /\ exitStatus' = exitStatus
    /\ UNCHANGED mainVars
    /\ UNCHANGED poolVars

\* a range check that moves the value to the nearest end of the range
EffectiveWorkers_Nearest(w) ==
    IF w < MIN_WORKERS THEN MIN_WORKERS ELSE IF w > MAX_WORKERS THEN MAX_WORKERS ELSE w

\* the value of args.workers after the range check
EffectiveWorkers(w) == IF w < MIN_WORKERS \/ w > MAX_WORKERS THEN FALLBACK_WORKERS ELSE w

\* whether the range check prints its warning
ClampWarns(w) == w < MIN_WORKERS \/ w > MAX_WORKERS

ClampWorkers ==
    /\ pc = "clamp"
    /\ workers' = EffectiveWorkers(workers)
    /\ clampWarned' = ClampWarns(workers)
    /\ pc' = "call"
    /\ UNCHANGED <<argvWorkers, listUrls, fileStatus, fileText, lineNum, urls, warnings,
                   exitStatus, single>>
    /\ UNCHANGED poolVars

----------------------------------------------------------------------------
(* download_concurrently *)

Requests == 1..Len(urls)

\* download_video invocations started and not yet returned
InFlight == { i \in DOMAIN tstate : tstate[i] \in {"mkdir", "download"} }

Submitted == { i \in DOMAIN tstate : tstate[i] # "unsubmitted" }

Finished == { i \in DOMAIN tstate : tstate[i] = "finished" }

\* The call: the two result lists are created empty and the executor is built.
\* ThreadPoolExecutor refuses max_workers <= 0 with a ValueError, which nothing catches.
EnterPool ==
    /\ pc = "call"
    /\ successful_downloads' = <<>>
    /\ failed_downloads' = <<>>
    /\ IF workers <= 0
       THEN /\ pc' = "exited"
            /\ exitStatus' = 1
            /\ UNCHANGED <<poolCreated, maxWorkers, tstate, invoked, future>>
       ELSE /\ pc' = "submit"
            /\ exitStatus' = exitStatus
            /\ poolCreated' = TRUE
            /\ maxWorkers' = workers
            /\ tstate' = [i \in Requests |-> "unsubmitted"]
            /\ invoked' = [i \in Requests |-> 0]
            /\ future' = [i \in Requests |-> NoFuture]
    /\ UNCHANGED <<numThreads, idleSem, workQueue, destDir, snapshot, waiterQ, yielded,
                   finishedOrder, raised>>
    /\ UNCHANGED mainVars

\* executor.submit starting a thread whenever none is idle, whatever max_workers is
SpawnsThread_Unbounded(idle, threads, maxw) == idle = 0

\* executor.submit: whether it starts a new worker thread. An idle thread is reused
\* (the idle semaphore is taken); otherwise a thread is started while fewer than
\* max_workers exist.
SpawnsThread(idle, threads, maxw) == idle = 0 /\ threads < maxw

\* executor.submit(download_video, url, ..., worker_id=i+1), in list order
Submit ==
    /\ pc = "submit"
    /\ Cardinality(Submitted) < Len(urls)
    /\ LET i == Cardinality(Submitted) + 1 IN
        /\ tstate' = [tstate EXCEPT ![i] = "queued"]
        /\ workQueue' = Append(workQueue, i)
        /\ numThreads' = IF SpawnsThread(idleSem, numThreads, maxWorkers)
                            THEN numThreads + 1 ELSE numThreads
        /\ idleSem' = IF idleSem > 0 THEN idleSem - 1 ELSE idleSem
    /\ UNCHANGED <<pc, exitStatus, poolCreated, maxWorkers, invoked, future, destDir,
                   snapshot, waiterQ, yielded, finishedOrder, successful_downloads,
                   failed_downloads, raised>>
    /\ UNCHANGED mainVars

\* the submission loop is over; as_completed(future_to_url) is called: the futures
\* already finished are set aside, a waiter is installed on the others
AsCompleted ==
    /\ pc = "submit"
    /\ Cardinality(Submitted) = Len(urls)
    /\ pc' = "collect"
    /\ snapshot' = Finished
    /\ waiterQ' = <<>>
    /\ UNCHANGED <<exitStatus, poolCreated, maxWorkers, numThreads, idleSem, workQueue,
                   tstate, invoked, future, destDir, yielded, finishedOrder,
                   successful_downloads, failed_downloads, raised>>
    /\ UNCHANGED mainVars

\* a pool that stops taking queued work items once a failure has surfaced
MayStart_CancelOnError ==
    workQueue # <<>> /\ Cardinality(InFlight) < numThreads /\ ~raised

\* Whether a worker thread can take a work item: one is queued and a thread is free
MayStart == workQueue # <<>> /\ Cardinality(InFlight) < numThreads

\* a queue that hands out the newest work item first
TakenPosition_Newest(q) == Len(q)

\* The position in the queue of the work item a free thread takes: the oldest
TakenPosition(q) == 1

\* a queue that keeps the work item it has handed out
QueueAfterTake_Kept(q, pos) == q

\* The queue once the work item at pos was taken
QueueAfterTake(q, pos) == SubSeq(q, 1, pos - 1) \o SubSeq(q, pos + 1, Len(q))

\* a worker thread that is not running a work item takes the oldest one and calls
\* download_video
StartTask ==
    /\ MayStart
    /\ LET i == workQueue[TakenPosition(workQueue)] IN
        /\ tstate' = [tstate EXCEPT ![i] = "mkdir"]
        /\ invoked' = [invoked EXCEPT ![i] = @ + 1]
    /\ workQueue' = QueueAfterTake(workQueue, TakenPosition(workQueue))
    /\ UNCHANGED <<pc, exitStatus, poolCreated, maxWorkers, numThreads, idleSem, future,
                   destDir, snapshot, waiterQ, yielded, finishedOrder, successful_downloads,
                   failed_downloads, raised>>
    /\ UNCHANGED mainVars

\* The work item of request i ends with Future state fut: the future is completed, the
\* waiter of as_completed (if installed) is told, the thread becomes idle.
Complete(i, fut) ==
    /\ future' = [future EXCEPT ![i] = fut]
    /\ tstate' = [tstate EXCEPT ![i] = "finished"]
    /\ idleSem' = idleSem + 1
    /\ waiterQ' = IF pc = "collect" THEN Append(waiterQ, i) ELSE waiterQ
    /\ finishedOrder' = Append(finishedOrder, i)

\* Path(output_path).mkdir(parents=True, exist_ok=True) succeeds: the directory exists
\* afterwards, whether or not it did before
MkdirOk(i) ==
    /\ tstate[i] = "mkdir"
    /\ destDir' = "dir"
    /\ tstate' = [tstate EXCEPT ![i] = "download"]
    /\ UNCHANGED <<pc, exitStatus, poolCreated, maxWorkers, numThreads, idleSem, workQueue,
                   invoked, future, snapshot, waiterQ, yielded, finishedOrder,
                   successful_downloads, failed_downloads, raised>>
    /\ UNCHANGED mainVars

\* What download_video does with an OSError of mkdir: the call stands before the try
\* block, so the exception leaves download_video and becomes the future's exception.
MkdirErrorFuture(url, e) == [kind |-> "exception", url |-> <<>>, success |-> FALSE, error |-> e]

\* a mkdir without exist_ok, which can raise whatever is on disk
MkdirMayRaise_NoExistOk(dir) == TRUE

\* Whether mkdir(parents=True, exist_ok=True) can raise: with exist_ok an existing
\* directory is accepted, whoever created it
MkdirMayRaise(dir) == dir = "absent"

\* mkdir raises (no permission, a file in the way, disk full): only possible while the
\* directory does not exist
MkdirRaises(i) ==
    /\ tstate[i] = "mkdir"
    /\ MkdirMayRaise(destDir)
    /\ Complete(i, MkdirErrorFuture(urls[i], ErrorOf(i)))
    /\ UNCHANGED <<pc, exitStatus, poolCreated, maxWorkers, numThreads, workQueue, invoked,
                   destDir, snapshot, yielded, successful_downloads, failed_downloads,
                   raised>>
    /\ UNCHANGED mainVars

\* return (url, True, None)
SuccessFuture(url) == [kind |-> "result", url |-> url, success |-> TRUE, error |-> <<>>]

\* except Exception as e: return (url, False, str(e))
FailureFuture(url, e) == [kind |-> "result", url |-> url, success |-> FALSE, error |-> e]

\* extract_info and download both succeed
DownloadOk(i) ==
    /\ tstate[i] = "download"
    /\ Complete(i, SuccessFuture(urls[i]))
    /\ UNCHANGED <<pc, exitStatus, poolCreated, maxWorkers, numThreads, workQueue, invoked,
                   destDir, snapshot, yielded, successful_downloads, failed_downloads,
                   raised>>
    /\ UNCHANGED mainVars

\* extract_info or download raises inside the try block
DownloadFails(i) ==
    /\ tstate[i] = "download"
    /\ Complete(i, FailureFuture(urls[i], ErrorOf(i)))
    /\ UNCHANGED <<pc, exitStatus, poolCreated, maxWorkers, numThreads, workQueue, invoked,
                   destDir, snapshot, yielded, successful_downloads, failed_downloads,
                   raised>>
    /\ UNCHANGED mainVars

\* an as_completed that yields the finished futures in any order
NextYield_AnyFinished == snapshot \cup { waiterQ[k] : k \in DOMAIN waiterQ }

\* The futures as_completed may yield next: any of those that were finished when it
\* was called, then the others in the order they finish.
NextYield ==
    IF snapshot # {} THEN snapshot
    ELSE IF waiterQ # <<>> THEN {Head(waiterQ)}
    ELSE {}

\* a successes list in which an append replaces what was there
SuccessesAfter_Overwrite(succ, res) == IF res.success THEN <<res.url>> ELSE succ

\* a successes list that keeps one entry per URL
SuccessesAfter_OncePerUrl(succ, res) ==
    IF res.success /\ res.url \notin { succ[k] : k \in DOMAIN succ }
    THEN Append(succ, res.url) ELSE succ

\* if success: successful_downloads.append(url)
SuccessesAfter(succ, res) == IF res.success THEN Append(succ, res.url) ELSE succ

\* a failures list whose entries all carry the error of the first failure
FailuresAfter_SharedError(fail, res) ==
    IF res.success THEN fail
    ELSE Append(fail, <<res.url, IF fail = <<>> THEN res.error ELSE fail[1][2]>>)

\* else: failed_downloads.append((url, error_msg))
FailuresAfter(fail, res) == IF res.success THEN fail ELSE Append(fail, <<res.url, res.error>>)

\* One iteration of the for loop over as_completed: future.result() returns the tuple,
\* or re-raises the exception the work item ended with, which ends the loop.
Collect ==
    /\ pc = "collect"
    /\ \E i \in NextYield :
        /\ yielded' = Append(yielded, i)
        /\ finishedOrder' = SelectSeq(finishedOrder, LAMBDA j : j # i)
        /\ snapshot' = snapshot \ {i}
        /\ waiterQ' = IF snapshot = {} THEN Tail(waiterQ) ELSE waiterQ
        /\ IF future[i].kind = "exception"
           THEN /\ raised' = TRUE
                /\ pc' = "shutdown"
                /\ UNCHANGED <<successful_downloads, failed_downloads>>
           ELSE /\ successful_downloads' = SuccessesAfter(successful_downloads, future[i])
                /\ failed_downloads' = FailuresAfter(failed_downloads, future[i])
                /\ UNCHANGED <<raised, pc>>
    /\ UNCHANGED <<exitStatus, poolCreated, maxWorkers, numThreads, idleSem, workQueue,
                   tstate, invoked, future, destDir>>
    /\ UNCHANGED mainVars

\* a loop that ends after the first outcome
Exhausted_AfterFirst == Len(yielded) >= 1 \/ Len(urls) = 0

\* as_completed has yielded every future it was given
Exhausted == Len(yielded) = Len(urls)

\* every future was yielded: the for loop ends
CollectDone ==
    /\ pc = "collect"
    /\ Exhausted
    /\ pc' = "shutdown"
    /\ UNCHANGED exitStatus
    /\ UNCHANGED poolVars
    /\ UNCHANGED mainVars

\* Whether executor.shutdown(wait=True) can return: the threads are joined, and they
\* run every queued work item first (nothing is cancelled).
ShutdownMayReturn == workQueue = <<>> /\ InFlight = {}

\* Leaving the with block: shutdown(wait=True), then either the return of the two
\* lists or the propagation of the exception through main (traceback, exit status 1).
Shutdown ==
    /\ pc = "shutdown"
    /\ ShutdownMayReturn
    /\ IF raised
       THEN pc' = "exited" /\ exitStatus' = 1
       ELSE pc' = "summary" /\ exitStatus' = exitStatus
    /\ UNCHANGED poolVars
    /\ UNCHANGED mainVars

\* a summary that ends normally whatever failed
SummaryExit_AlwaysZero(fail) == 0

\* The exit status after the summary: sys.exit(1) if failed_downloads, else the normal end
SummaryExit(fail) == IF fail # <<>> THEN 1 ELSE 0

Summary ==
    /\ pc = "summary"
    /\ pc' = "exited"
    /\ exitStatus' = SummaryExit(failed_downloads)
    /\ UNCHANGED poolVars
    /\ UNCHANGED mainVars

----------------------------------------------------------------------------
(* Specifications *)

Worker ==
    \/ StartTask
    \/ \E i \in DOMAIN tstate : MkdirOk(i)
    \/ \E i \in DOMAIN tstate : MkdirRaises(i)
    \/ \E i \in DOMAIN tstate : DownloadOk(i)
    \/ \E i \in DOMAIN tstate : DownloadFails(i)

Next ==
    \/ ParseArgs
    \/ OpenFile
    \/ ReadLine
    \/ ReadReturn
    \/ CheckUrls
    \/ ListUrls
    \/ ClampWorkers
    \/ EnterPool
    \/ Submit
    \/ AsCompleted
    \/ Collect
    \/ CollectDone
    \/ Shutdown
    \/ Summary
    \/ Worker

\* Batch runs over URL files of up to MaxLines lines
Spec == Init /\ [][Next]_vars

\* Runs with --list-urls over the wider family of URL files: the reader and main's
\* way out of it
InitRead == InitWith(ReaderFiles, {<<>>}) /\ listUrls /\ destDir = "dir"

NextRead ==
    \/ ParseArgs
    \/ OpenFile
    \/ ReadLine
    \/ ReadReturn
    \/ CheckUrls
    \/ ListUrls

SpecRead == InitRead /\ [][NextRead]_vars

\* Batch runs over every --workers value tried
InitClamp == InitWith(ClampFiles, ClampWorkerArgs)

SpecClamp == InitClamp /\ [][Next]_vars

\* Batch runs that reach the pool, under the scheduling the program runs on: the main
\* thread and the worker threads are scheduled by the operating system, so a step
\* that stays possible is eventually taken, and the download operation returns.
InitFair == InitWith(FairFiles, {<<1>>, <<2>>}) /\ fileStatus = "ok" /\ ~listUrls

FairSpec == InitFair /\ [][Next]_vars /\ WF_vars(Next)

----------------------------------------------------------------------------
(* simple-youtube-scraper.py *)

\* the state of the batch program, which a run of the single-URL program leaves alone
batchVars == <<pc, exitStatus, poolVars, argvWorkers, listUrls, workers, fileStatus,
               fileText, lineNum, urls, warnings, clampWarned>>

\* the url argument as given on the command line
SingleUrls == ReaderLines

\* the prefixes a URL may start with
SingleAllowedPrefixes ==
    { <<"https://", "www.", "youtube.com", "/">>,
      <<"https://", "youtu.be", "/">>,
      <<"https://", "youtube.com", "/">> }

\* args.url.startswith((...)): the argument as given, not stripped
SingleAccepts(url) == \E p \in SingleAllowedPrefixes : StartsWith(url, p)

\* args = parser.parse_args()
SingleParseArgs ==
    /\ single.pc = "idle"
    /\ \E u \in SingleUrls, lf \in BOOLEAN, ao \in BOOLEAN, d \in {"absent", "dir"} :
          single' = [single EXCEPT !.pc = "check", !.url = u, !.listFormats = lf,
                                   !.audioOnly = ao, !.dir = d]
    /\ UNCHANGED batchVars

\* if not args.url.startswith(...): sys.exit(1); then the choice between listing the
\* formats and downloading
SingleCheckUrl ==
    /\ single.pc = "check"
    /\ single' = IF ~SingleAccepts(single.url)
                    THEN [single EXCEPT !.pc = "exited", !.exit = 1]
                 ELSE IF single.listFormats
                    THEN [single EXCEPT !.pc = "list"]
                 ELSE [single EXCEPT !.pc = "mkdir"]
    /\ UNCHANGED batchVars

\* --list-formats: extract_info and the printing succeed; main returns
SingleListFormatsOk ==
    /\ single.pc = "list"
    /\ single' = [single EXCEPT !.pc = "exited", !.extracted = @ + 1, !.exit = 0]
    /\ UNCHANGED batchVars

\* --list-formats: an exception inside the try block: sys.exit(1)
SingleListFormatsFails ==
    /\ single.pc = "list"
    /\ single' = [single EXCEPT !.pc = "exited", !.extracted = @ + 1, !.exit = 1]
    /\ UNCHANGED batchVars

\* download_video: Path(output_path).mkdir(parents=True, exist_ok=True) succeeds
SingleMkdirOk ==
    /\ single.pc = "mkdir"
    /\ single' = [single EXCEPT !.pc = "extract", !.mkdirs = @ + 1, !.dir = "dir"]
    /\ UNCHANGED batchVars

\* download_video: mkdir raises. The call stands before the try block: the exception
\* leaves download_video and main, and the interpreter ends with status 1.
SingleMkdirRaises ==
    /\ single.pc = "mkdir"
    /\ MkdirMayRaise(single.dir)
    /\ single' = [single EXCEPT !.pc = "exited", !.mkdirs = @ + 1, !.returned = "raised",
                                !.exit = 1]
    /\ UNCHANGED batchVars

\* download_video: ydl.extract_info(url, download=False) and the printing succeed
SingleExtractOk ==
    /\ single.pc = "extract"
    /\ single' = [single EXCEPT !.pc = "download", !.extracted = @ + 1]
    /\ UNCHANGED batchVars

\* download_video: an exception in extract_info or in the printing: return False
SingleExtractFails ==
    /\ single.pc = "extract"
    /\ single' = [single EXCEPT !.pc = "return", !.extracted = @ + 1, !.returned = "False"]
    /\ UNCHANGED batchVars

\* download_video: ydl.download([url]) succeeds: return True
SingleDownloadOk ==
    /\ single.pc = "download"
    /\ single' = [single EXCEPT !.pc = "return", !.downloaded = @ + 1, !.returned = "True"]
    /\ UNCHANGED batchVars

\* download_video: ydl.download([url]) raises: return False
SingleDownloadFails ==
    /\ single.pc = "download"
    /\ single' = [single EXCEPT !.pc = "return", !.downloaded = @ + 1, !.returned = "False"]
    /\ UNCHANGED batchVars

\* a main that ends normally whatever download_video returned
SingleExitStatus_AlwaysZero(returned) == 0

\* if not success: sys.exit(1)
SingleExitStatus(returned) == IF returned = "False" THEN 1 ELSE 0

SingleExit ==
    /\ single.pc = "return"
    /\ single' = [single EXCEPT !.pc = "exited", !.exit = SingleExitStatus(single.returned)]
    /\ UNCHANGED batchVars

NextSingle ==
    \/ SingleParseArgs
    \/ SingleCheckUrl
    \/ SingleListFormatsOk
    \/ SingleListFormatsFails
    \/ SingleMkdirOk
    \/ SingleMkdirRaises
    \/ SingleExtractOk
    \/ SingleExtractFails
    \/ SingleDownloadOk
    \/ SingleDownloadFails
    \/ SingleExit

\* Runs of the single-URL program over every argument tried
InitSingle == InitWith({<<>>}, {<<>>}) /\ fileStatus = "ok" /\ ~listUrls /\ destDir = "dir"

SpecSingle == InitSingle /\ [][NextSingle]_vars

----------------------------------------------------------------------------
(* Properties *)

Range(seq) == { seq[k] : k \in DOMAIN seq }

\* how many times request i was yielded by as_completed
TimesYielded(i) == Cardinality({ k \in DOMAIN yielded : yielded[k] = i })

\* download_concurrently was entered and has been left, by return or by exception
BatchEnded == poolCreated /\ pc \in {"summary", "exited"}

\* download_concurrently has returned its pair to main
Returned == BatchEnded /\ ~raised

\* C1: whenever download_concurrently has been left, it has returned a pair in which
\* every submitted request has exactly one outcome: each request was processed once,
\* and the two lists together hold as many entries as there were requests.
C1_EveryRequestOneOutcome ==
    BatchEnded =>
        /\ ~raised
        /\ \A i \in Requests : TimesYielded(i) = 1
        /\ Len(successful_downloads) + Len(failed_downloads) = Len(urls)

\* C2: at every moment of a batch run the number of download_video invocations that
\* have started and not returned is at most the executor's max_workers, which lies
\* in 1..20.
C2_AtMostWInFlight ==
    poolCreated =>
        /\ maxWorkers \in MIN_WORKERS..MAX_WORKERS
        /\ Cardinality(InFlight) <= maxWorkers

\* C2 witness: more requests than workers, max_workers invocations in flight and a
\* request still waiting in the queue
C2_PoolSaturated ==
    /\ poolCreated
    /\ Len(urls) > maxWorkers
    /\ Cardinality(InFlight) = maxWorkers
    /\ workQueue # <<>>

\* request i's download operation ended in failure: it returned (url, False, error)
\* or raised
TaskFailed(i) == future[i].kind = "exception" \/ (future[i].kind = "result" /\ ~future[i].success)

TaskSucceeded(i) == future[i].kind = "result" /\ future[i].success

\* C3: when the batch is over the coordinator has not failed, every request whose
\* download operation succeeded is in the successes list and every request whose
\* download operation failed is in the failures list.
C3_FailuresDoNotStopSiblings ==
    BatchEnded =>
        /\ ~raised
        /\ \A i \in Requests :
            /\ TaskSucceeded(i) =>
                 TimesYielded(i) = 1 /\ urls[i] \in Range(successful_downloads)
            /\ TaskFailed(i) =>
                 /\ TimesYielded(i) = 1
                 /\ \E k \in DOMAIN failed_downloads : failed_downloads[k][1] = urls[i]

\* C4 as stated: over every path through main, the exit status is non-zero exactly
\* when the failures list is not empty.
C4_NonZeroIffFailedOutcome ==
    pc = "exited" => (exitStatus # 0 <=> failed_downloads # <<>>)

\* C4 as amended: the exit status is non-zero exactly when the URL file could not be
\* read, no valid URL was found, or the download operation of at least one request
\* failed (returned a failure or raised); a recorded failure always gives a non-zero
\* exit status.
C4_NonZeroIffSomethingFailed ==
    pc = "exited" =>
        /\ exitStatus \in {0, 1}
        /\ exitStatus # 0 <=>
             \/ fileStatus # "ok"
             \/ urls = <<>>
             \/ \E i \in DOMAIN future : TaskFailed(i)
        /\ failed_downloads # <<>> => exitStatus # 0

\* C4 witness: a batch of several requests ended with one recorded failure and one
\* recorded success, and the process exited with status 1
C4_ExitedAfterMixedBatch ==
    /\ pc = "exited"
    /\ Returned
    /\ failed_downloads # <<>>
    /\ successful_downloads # <<>>
    /\ exitStatus = 1

\* C5: when the batch is over, a request whose mkdir raised is recorded as a failed
\* outcome and the outcome of every other request was collected and returned.
C5_MkdirErrorAbortsOnlyItsTask ==
    BatchEnded =>
        \A i \in Requests :
            future[i].kind = "exception" =>
                /\ Returned
                /\ \E k \in DOMAIN failed_downloads : failed_downloads[k][1] = urls[i]
                /\ \A j \in Requests : TimesYielded(j) = 1

\* C6: the max_workers the pool is built with is the requested --workers value when
\* that lies in 1..20 (no warning), and 10 with a warning for every other value; 10
\* without a warning when the option is absent; and a run that gets past --list-urls
\* always builds its pool (no value makes the program crash before).
C6_EffectiveBoundIsTotal ==
    LET given == argvWorkers # <<>>
        inRange == given /\ argvWorkers[1] >= 1 /\ argvWorkers[1] <= 20
    IN  /\ (pc = "call" \/ poolCreated) =>
            /\ inRange => (workers = argvWorkers[1] /\ ~clampWarned)
            /\ (given /\ ~inRange) => (workers = 10 /\ clampWarned)
            /\ ~given => (workers = 10 /\ ~clampWarned)
        /\ poolCreated => maxWorkers = workers
        /\ (pc = "exited" /\ fileStatus = "ok" /\ urls # <<>> /\ ~listUrls) => poolCreated

\* C6 witness: a pool built for a --workers value above 20
C6_PoolBuiltForTooManyWorkers ==
    /\ poolCreated
    /\ argvWorkers # <<>>
    /\ argvWorkers[1] > 20
    /\ maxWorkers = 10
    /\ clampWarned

\* a stripped line that is kept
IsValidLine(line) == line # <<>> /\ ~StartsWith(line, <<"#">>) /\ HasAllowedPrefix(line)

\* a stripped line that is warned about
IsRejectedLine(line) == line # <<>> /\ ~StartsWith(line, <<"#">>) /\ ~HasAllowedPrefix(line)

\* the first n lines of the file, stripped
StrippedLines(n) == [k \in 1..n |-> Strip(fileText[k])]

\* C7: once the file is open, urls is exactly the subsequence, in file order, of the
\* stripped lines read so far that are non-empty, no comment and start with an
\* accepted prefix; one warning was printed for every other non-empty non-comment
\* line, with its line number; and the reader is left only after the last line.
C7_ReaderKeepsExactlyValidLines ==
    (fileStatus = "ok" /\ pc \notin {"parse", "open"}) =>
        /\ urls = SelectSeq(StrippedLines(lineNum), IsValidLine)
        /\ warnings = SelectSeq([k \in 1..lineNum |-> k],
                                LAMBDA k : IsRejectedLine(StrippedLines(lineNum)[k]))
        /\ pc # "read" => lineNum = Len(fileText)

\* C7 witness: the five-line example file was read to its end
C7_ExampleFileRead ==
    /\ fileText = ExampleFile
    /\ pc = "check"
    /\ urls = <<UrlA, UrlB>>
    /\ warnings = <<4>>

\* C8 as stated: a run whose URL file yields no request ends as a success.
C8_EmptyBatchIsSuccess ==
    (pc = "exited" /\ fileStatus = "ok" /\ urls = <<>>) => exitStatus = 0

\* C8 as amended: a run whose URL file yields no request invokes no download
\* operation, builds no pool and produces no outcome, and main reports it as an
\* error: exit status 1.
C8_EmptyBatchIsErrorExit ==
    (pc = "exited" /\ fileStatus = "ok" /\ urls = <<>>) =>
        /\ exitStatus = 1
        /\ ~poolCreated
        /\ invoked = <<>>
        /\ successful_downloads = <<>>
        /\ failed_downloads = <<>>

\* C8 witness: a readable file with lines, none of them a valid URL, and the run over
C8_NoValidUrlExit ==
    /\ pc = "exited"
    /\ fileStatus = "ok"
    /\ Len(fileText) > 0
    /\ urls = <<>>
    /\ ~listUrls

\* C9: when download_concurrently has returned and the summary is not yet printed,
\* every submitted request has been processed once, the two lists hold one entry per
\* request, and no download operation is in flight or waiting to start.
C9_ReturnOnlyWhenDrained ==
    pc = "summary" =>
        /\ Len(yielded) = Len(urls)
        /\ \A i \in Requests : TimesYielded(i) = 1 /\ tstate[i] = "finished"
        /\ Len(successful_downloads) + Len(failed_downloads) = Len(urls)
        /\ InFlight = {}
        /\ workQueue = <<>>

\* C9 witness: a batch of at least two requests has returned, with a success and a
\* failure
C9_ReturnedMixedBatch ==
    /\ pc = "summary"
    /\ Len(urls) >= 2
    /\ successful_downloads # <<>>
    /\ failed_downloads # <<>>

\* C10: every request of a batch is eventually started and its download operation
\* eventually returns, whatever happened to the other requests.
C10_EveryTaskRunsToCompletion ==
    \A i \in 1..MaxLines :
        (i \in DOMAIN tstate) ~>
            (i \in DOMAIN tstate /\ tstate[i] = "finished" /\ invoked[i] = 1)

\* C10 witness: the exception of one request has reached the coordinator while another
\* request is still waiting in the queue
C10_FailureWhileOthersQueued ==
    /\ raised
    /\ workQueue # <<>>

\* a worker thread has taken request i's work item and called download_video
Started(i) == tstate[i] \in {"mkdir", "download", "finished"}

EndedBefore(i) ==
    { finishedOrder[k] : k \in { n \in DOMAIN finishedOrder :
                                    \E m \in DOMAIN finishedOrder :
                                        n < m /\ finishedOrder[m] = i } }

\* the outcomes of requests i and j go to the same result list
SameList(i, j) ==
    /\ future[i].kind = "result"
    /\ future[j].kind = "result"
    /\ future[i].success = future[j].success

\* every request has ended by returning its tuple, so that every outcome will be
\* appended to one of the two lists
AllReturnedTuples == \A k \in DOMAIN future : future[k].kind = "result"

\* the for loop receives the future of request i from as_completed
Yields(i) == yielded' = Append(yielded, i)

\* C12 as stated: each list is in the order in which the download operations
\* completed: an outcome is never appended while the outcome of a request that
\* completed earlier, and that goes to the same list, is still to be appended.
C12_ListsInCompletionOrder ==
    [][\A i \in DOMAIN future :
          (AllReturnedTuples /\ Yields(i)) => \A j \in EndedBefore(i) : ~SameList(i, j)]_vars

\* the requests behind the entries of a list, in the order as_completed yielded them
YieldedWith(success) ==
    SelectSeq(yielded, LAMBDA i : future[i].kind = "result" /\ future[i].success = success)

\* C12, amended: each list is in the order in which the coordinating thread received
\* the outcomes from as_completed. An outcome that completed after as_completed was
\* called is received after every outcome that completed before it; only outcomes
\* that had already completed when as_completed was called can be received in an
\* order other than their completion order.
C12_ListsInArrivalOrder ==
    /\ successful_downloads = [k \in DOMAIN YieldedWith(TRUE) |-> urls[YieldedWith(TRUE)[k]]]
    /\ Len(failed_downloads) = Len(YieldedWith(FALSE))
    /\ \A k \in DOMAIN failed_downloads : failed_downloads[k][1] = urls[YieldedWith(FALSE)[k]]
    /\ pc = "collect" =>
          \A i \in NextYield : EndedBefore(i) # {} => (i \in snapshot /\ EndedBefore(i) \subseteq snapshot)

\* C12 witness: two outcomes of one list had completed when as_completed was called,
\* so the later of them may be received first, while a third outcome completed after
\* the call and waits behind them
C12_EarlyOutcomesAwaitCollection ==
    /\ pc = "collect"
    /\ waiterQ # <<>>
    /\ \E i \in snapshot : \E j \in EndedBefore(i) : SameList(i, j)

\* how many entries of the list seq equal x
Occurrences(seq, x) == Cardinality({ k \in DOMAIN seq : seq[k] = x })

\* the outcome download_video returned for request i, as the failures list records it
FailureEntry(i) == <<urls[i], future[i].error>>

\* C13: what download_concurrently returns is determined, up to the order within each
\* list, by the request list and the verdict of each request: the successes are the
\* URLs of the requests that succeeded and the failures the (url, error) pairs of the
\* requests that failed, each as many times as there are such requests; and whether
\* anything is returned at all depends on the verdicts alone.
C13_ContentDeterminedByVerdicts ==
    BatchEnded =>
        /\ raised <=> \E i \in Requests : future[i].kind = "exception"
        /\ Returned =>
            /\ Len(successful_downloads) = Cardinality({ i \in Requests : TaskSucceeded(i) })
            /\ Len(failed_downloads) = Cardinality({ i \in Requests : TaskFailed(i) })
            /\ \A i \in Requests :
                /\ TaskSucceeded(i) =>
                      Occurrences(successful_downloads, urls[i]) =
                          Cardinality({ j \in Requests : TaskSucceeded(j) /\ urls[j] = urls[i] })
                /\ TaskFailed(i) =>
                      Occurrences(failed_downloads, FailureEntry(i)) =
                          Cardinality({ j \in Requests :
                                          TaskFailed(j) /\ FailureEntry(j) = FailureEntry(i) })

\* C13 witness: a batch has returned both lists non-empty, with the same URL twice
\* among the successes, after receiving the outcomes in another order than submitted
C13_ReturnedAfterReordering ==
    /\ Returned
    /\ failed_downloads # <<>>
    /\ \E a, b \in DOMAIN successful_downloads :
          a # b /\ successful_downloads[a] = successful_downloads[b]
    /\ \E a, b \in DOMAIN yielded : a < b /\ yielded[a] > yielded[b]

\* C14: creating the destination directory is idempotent: a download_video call that
\* reaches mkdir while the directory exists, left by an earlier run or just created
\* by another worker, goes on to its download; mkdir gives it no error and does not
\* end it, and the directory stays.
C14_MkdirOnExistingDirectoryPasses ==
    [][destDir = "dir" =>
          /\ destDir' = "dir"
          /\ \A i \in DOMAIN tstate :
                tstate[i] = "mkdir" =>
                    /\ tstate'[i] \in {"mkdir", "download"}
                    /\ future'[i] = NoFuture]_vars

\* C14 witness: two workers have passed mkdir on the same directory and a third call
\* stands before it
C14_WorkersShareDirectory ==
    /\ destDir = "dir"
    /\ Cardinality({ i \in DOMAIN tstate : tstate[i] = "download" }) >= 2
    /\ \E i \in DOMAIN tstate : tstate[i] = "mkdir"

\* C15: download_video is called at most once for a request at any moment, and when
\* download_concurrently has been left it was called exactly once for each request,
\* failed or not: N calls for N requests.
C15_OneInvocationPerRequest ==
    /\ \A i \in DOMAIN invoked : invoked[i] <= 1
    /\ BatchEnded => \A i \in Requests : invoked[i] = 1

\* C15 witness: a batch of several requests is over, one of which failed and one of
\* which succeeded
C15_BatchOverWithFailure ==
    /\ BatchEnded
    /\ \E i, j \in Requests :
          /\ TaskFailed(i) /\ invoked[i] = 1
          /\ TaskSucceeded(j) /\ invoked[j] = 1

\* C16: at every moment, each entry of the failures list is the URL of a request
\* whose download operation failed together with the error of that very invocation,
\* and each entry of the successes list is the URL of a request whose download
\* operation succeeded; distinct entries stand for distinct requests.
C16_EntriesPairUrlWithOwnError ==
    /\ Len(failed_downloads) = Len(YieldedWith(FALSE))
    /\ \A k \in DOMAIN failed_downloads :
          LET i == YieldedWith(FALSE)[k] IN
              /\ tstate[i] = "finished" /\ ~future[i].success
              /\ failed_downloads[k] = <<urls[i], ErrorOf(i)>>
    /\ Len(successful_downloads) = Len(YieldedWith(TRUE))
    /\ \A k \in DOMAIN successful_downloads :
          LET i == YieldedWith(TRUE)[k] IN
              /\ TaskSucceeded(i)
              /\ successful_downloads[k] = urls[i]

\* C16 witness: the failures list holds the outcomes of two requests for different
\* URLs, received in the opposite of their submission order, beside a success
C16_TwoFailuresRecorded ==
    /\ successful_downloads # <<>>
    /\ Len(failed_downloads) = 2
    /\ failed_downloads[1][1] # failed_downloads[2][1]
    /\ YieldedWith(FALSE)[1] > YieldedWith(FALSE)[2]

\* seq2 is seq1 with one entry appended
OneAppended(seq1, seq2) ==
    Len(seq2) = Len(seq1) + 1 /\ SubSeq(seq2, 1, Len(seq1)) = seq1

\* C17: the result lists are written by the coordinating thread alone: every step
\* that changes successful_downloads or failed_downloads is an iteration of the loop
\* over as_completed, in which no worker thread moves, and it appends one entry to
\* one of the two lists, keeping every entry appended before.
C17_OnlyCoordinatorAppends ==
    [][(successful_downloads' # successful_downloads \/ failed_downloads' # failed_downloads) =>
          /\ pc = "collect"
          /\ \E i \in DOMAIN future : Yields(i)
          /\ tstate' = tstate /\ future' = future /\ workQueue' = workQueue
          /\ \/ /\ OneAppended(successful_downloads, successful_downloads')
                /\ failed_downloads' = failed_downloads
             \/ /\ OneAppended(failed_downloads, failed_downloads')
                /\ successful_downloads' = successful_downloads]_vars

\* C17 witness: outcomes were appended to both lists while a download is still running
C17_AppendedWhileWorkersRun ==
    /\ Len(successful_downloads) + Len(failed_downloads) >= 2
    /\ successful_downloads # <<>>
    /\ failed_downloads # <<>>
    /\ InFlight # {}

\* C18: in a run with --list-urls no worker pool is ever created, download_video is
\* never called, the range check of --workers is never made (no warning, the value
\* stays as parsed), and a run that found at least one valid URL ends with exit
\* status 0.
C18_ListUrlsOnlyLists ==
    listUrls =>
        /\ ~poolCreated
        /\ invoked = <<>>
        /\ tstate = <<>>
        /\ ~clampWarned
        /\ pc # "parse" => workers = ParsedWorkers(argvWorkers)
        /\ (pc = "exited" /\ urls # <<>>) => exitStatus = 0

\* C18 witness: a run with --list-urls and a --workers value outside the range has
\* ended after listing two URLs
C18_ListedWithWorkersOutOfRange ==
    /\ listUrls
    /\ pc = "exited"
    /\ Len(urls) >= 2
    /\ ClampWarns(workers)
    /\ exitStatus = 0

\* the single-URL program has checked its url argument
SingleChecked == single.pc \notin {"idle", "check"}

\* a URL without an allow-listed prefix ends the run with status 1 before any mkdir,
\* extraction or download
SingleRejectsBeforeAnyWork ==
    (SingleChecked /\ ~SingleAccepts(single.url)) =>
        /\ single.pc = "exited"
        /\ single.exit = 1
        /\ single.mkdirs = 0 /\ single.extracted = 0 /\ single.downloaded = 0

\* a run with an accepted URL and without --list-formats has ended
SingleDownloadRunEnded ==
    single.pc = "exited" /\ SingleAccepts(single.url) /\ ~single.listFormats

\* C19 as stated: a URL without an allow-listed prefix is rejected with status 1
\* before any work, and a download run ends with a non-zero status exactly when
\* download_video returned False.
C19_NonZeroIffReturnedFalse ==
    /\ SingleRejectsBeforeAnyWork
    /\ SingleDownloadRunEnded => (single.exit # 0 <=> single.returned = "False")

\* C19, amended: a URL without an allow-listed prefix is rejected with status 1
\* before any work, and a download run ends with a non-zero status exactly when
\* download_video did not return True: it returned False, or its mkdir raised and
\* the uncaught exception ended the process with status 1.
C19_NonZeroIffNotReturnedTrue ==
    /\ SingleRejectsBeforeAnyWork
    /\ SingleDownloadRunEnded =>
          /\ single.returned \in {"True", "False", "raised"}
          /\ single.exit # 0 <=> single.returned # "True"
          /\ single.exit \in {0, 1}

\* C19 witness: a download run has ended with status 1 after download_video created
\* the directory, extracted the information and returned False from the download
C19_DownloadRunFailed ==
    /\ SingleDownloadRunEnded
    /\ single.returned = "False"
    /\ single.downloaded = 1
    /\ single.exit = 1

====
